---- MODULE Spec2Model ----
(***************************************************************************)
(* A model of the zx0-rs compressor: the Compressor builder, the optimal   *)
(* parser (src/src/optimize.rs) with its reference counted block arena,    *)
(* the chain walk (src/src/compressor.rs) and the bit-level emitter        *)
(* (src/src/compress.rs).                                                   *)
(*                                                                         *)
(* Rust vectors are modelled as sequences; element i of a vector is        *)
(* position i + 1 of the sequence (operators At and Put).                  *)
(***************************************************************************)
EXTENDS Integers, Sequences, FiniteSets, TLC

\* ------------------------------------------------------------------------
\* Program constants (src/src/lib.rs) and the bounds of the model
\* ------------------------------------------------------------------------

INITIAL_OFFSET == 1
MAX_OFFSET_ZX0 == 32640
MAX_OFFSET_ZX7 == 2176

\* optimize() reports progress on every index that is a multiple of this.
ProgressInterval == 128

\* Every byte sequence of length 0..MaxLen over Bytes is an input of the model.
MaxLen == 4

Bytes == {0, 1}

\* The largest value handed to write_interlaced_elias_gamma on its own.
MaxValue == 300

\* ------------------------------------------------------------------------
\* Vectors
\* ------------------------------------------------------------------------

At(v, i) == v[i + 1]

Put(v, i, x) == [v EXCEPT ![i + 1] = x]

Zeros(n) == [i \in 1..n |-> 0]

Reverse(s) == [i \in 1..Len(s) |-> s[Len(s) + 1 - i]]

Max(a, b) == IF a >= b THEN a ELSE b

\* ------------------------------------------------------------------------
\* src/src/optimize.rs: helpers
\* ------------------------------------------------------------------------

offset_ceiling(index, offset_limit) ==
    IF index > offset_limit THEN offset_limit
    ELSE IF index < INITIAL_OFFSET THEN INITIAL_OFFSET
    ELSE index

\* u32::BITS - value.leading_zeros(): the number of significant bits of value.
RECURSIVE BitWidth(_)
BitWidth(value) == IF value = 0 THEN 0 ELSE 1 + BitWidth(value \div 2)

\* 2 * (u32::BITS - value.leading_zeros() - 1) + 1, which is
\* 2 * floor(log2(value)) + 1 for value >= 1.  (For value = 0 the u32
\* subtraction underflows; no call of the model passes 0.)
elias_gamma_bits(value) == 2 * (BitWidth(value) - 1) + 1

\* ------------------------------------------------------------------------
\* src/src/optimize.rs: Block and Allocator
\* ------------------------------------------------------------------------

Block(bits, index, offset, next_index, refcount) ==
    [bits |-> bits, index |-> index, offset |-> offset,
     next_index |-> next_index, refcount |-> refcount]

\* Allocator::new(): an empty free list and the block of the null handle.
AllocatorNew == [free_list |-> <<>>, blocks |-> <<Block(0, 0, 0, 0, 0)>>]

\* The decrement without the push to the free list.
ReleaseNoPush(a, ptr) ==
    IF ptr = 0 THEN a
    ELSE [a EXCEPT !.blocks = Put(a.blocks, ptr,
             [At(a.blocks, ptr) EXCEPT !.refcount = At(a.blocks, ptr).refcount - 1])]

\* The refcount decrement of the slot's prior value and its release to the
\* free list, shared by assign and assign_new (lines 59-65 and 76-82).
Release(a, ptr) ==
    IF ptr = 0 THEN a
    ELSE LET rc == At(a.blocks, ptr).refcount - 1
             bs == Put(a.blocks, ptr, [At(a.blocks, ptr) EXCEPT !.refcount = rc])
         IN  [blocks |-> bs,
              free_list |-> IF rc = 0 THEN Append(a.free_list, ptr) ELSE a.free_list]

\* The increment left out.
RetainForgotten(a, h) == a

\* The refcount increment of a block.
Retain(a, h) ==
    [a EXCEPT !.blocks = Put(a.blocks, h,
        [At(a.blocks, h) EXCEPT !.refcount = At(a.blocks, h).refcount + 1])]

\* Allocator::assign(ptr, next_index): the allocator and the slot's new value.
assign(a, ptr, next_index) ==
    [alloc |-> Release(Retain(a, next_index), ptr), ptr |-> next_index]

\* The new block stored at the handle freed last.
PlaceLifo(a, block) ==
    IF a.free_list /= <<>>
    THEN [alloc |-> [blocks |-> Put(a.blocks, a.free_list[Len(a.free_list)], block),
                     free_list |-> SubSeq(a.free_list, 1, Len(a.free_list) - 1)],
          ptr |-> a.free_list[Len(a.free_list)]]
    ELSE [alloc |-> [blocks |-> Append(a.blocks, block), free_list |-> a.free_list],
          ptr |-> Len(a.blocks)]

\* Where assign_new stores the new block: the head of the free list, or a new
\* element of the vector when the free list is empty.
Place(a, block) ==
    IF a.free_list /= <<>>
    THEN [alloc |-> [blocks |-> Put(a.blocks, Head(a.free_list), block),
                     free_list |-> Tail(a.free_list)],
          ptr |-> Head(a.free_list)]
    ELSE [alloc |-> [blocks |-> Append(a.blocks, block), free_list |-> a.free_list],
          ptr |-> Len(a.blocks)]

\* Allocator::assign_new(ptr, bits, index, offset, next_index).
assign_new(a, ptr, bits, index, offset, next_index) ==
    LET a1 == IF next_index /= 0 THEN Retain(a, next_index) ELSE a
        a2 == Release(a1, ptr)
    IN  Place(a2, Block(bits, index, offset, next_index, 1))

\* Allocator::get(index)
get(a, h) == At(a.blocks, h)

\* ------------------------------------------------------------------------
\* State
\* ------------------------------------------------------------------------

VARIABLES
    skip, quick_mode, backwards_mode, classic_mode,  \* the Compressor's fields
    pc,              \* where the current compress call stands
    input,           \* the slice handed to compress
    allocator,       \* optimize: the Allocator
    last_literal, last_match, optimal, match_length, best_length,
    index, offset, best_length_size,                 \* optimize: loop locals
    progress,        \* the values the progress callback has been called with
    chain,           \* the chain of blocks walked from the terminal handle
    context,         \* compress: the Context, with delta and last_offset
    pos,             \* compress: the window of the chain being written
    result,          \* the CompressionResult of the call
    kept,            \* a CompressionResult the caller has kept, and its call
    gamma            \* a call of write_interlaced_elias_gamma on its own

settings == <<skip, quick_mode, backwards_mode, classic_mode>>

tables == <<last_literal, last_match, optimal, match_length, best_length>>

locals == <<index, offset, best_length_size>>

emitter == <<chain, context, pos>>

vars == <<settings, pc, input, allocator, tables, locals, progress, emitter, result, kept, gamma>>

NoResult == [output |-> <<>>, delta |-> 0, returned |-> FALSE]

NoKept ==
    [held |-> FALSE, input |-> <<>>, skip |-> 0, quick_mode |-> FALSE,
     backwards_mode |-> FALSE, classic_mode |-> FALSE, output |-> <<>>, delta |-> 0]

NoGamma ==
    [stage |-> "idle", value |-> 0, backwards_mode |-> FALSE, invert_mode |-> FALSE,
     i |-> 0, written |-> <<>>,
     context |-> [backtrack |-> FALSE, bit_mask |-> 0, bit_index |-> 0, input_index |-> 0,
                  output |-> <<>>, output_index |-> 0, diff |-> 0, delta |-> 0,
                  last_offset |-> 0, fault |-> FALSE]]

NoContext == [backtrack |-> FALSE, bit_mask |-> 0, bit_index |-> 0, input_index |-> 0,
              output |-> <<>>, output_index |-> 0, diff |-> 0, delta |-> 0,
              last_offset |-> 0, fault |-> FALSE]

\* ------------------------------------------------------------------------
\* The inputs of the model
\* ------------------------------------------------------------------------

ShortInputs == UNION {[1..n -> Bytes] : n \in 0..MaxLen}

\* 0, 1, 2, ..., n - 1
Ramp(n) == [i \in 1..n |-> i - 1]

\* Inputs with a long prefix: a run of distinct bytes, and the same run
\* followed by a byte and the first two bytes of the run again (a match at
\* offset 129, beyond the offsets that fit the offset byte alone).
PrefixInputs == {Ramp(129), Ramp(128) \o <<200, 0, 1>>}

\* An input whose dead blocks keep their predecessors referenced.
LeakInput == <<0, 0, 0, 0, 1, 0, 1, 1>>

\* Eight literals, a byte equal to its predecessor, sixteen literals and
\* again a byte equal to its predecessor.
RunInput == <<1, 2, 3, 4, 5, 6, 7, 8, 8, 9, 10, 11, 12, 13, 14, 15, 16,
              17, 18, 19, 20, 21, 22, 23, 24, 24>>

\* An input whose chain holds a copy from a new offset right after a copy,
\* and later a copy from a last offset other than INITIAL_OFFSET.
GrammarInput == <<0, 1, 1, 0, 1, 0, 0>>

\* An input during whose optimization an assign_new call finds two handles
\* on the free list.
FifoInput == <<0, 1, 2, 0, 1, 1, 1>>

WholeInputs == {LeakInput, RunInput, GrammarInput, FifoInput}

\* The slices of the caller that calls twice: the empty one and two whose
\* optimization, between them, takes every branch of the loop.
ReuseInputs == {<<>>, <<0, 0>>, <<0, 1, 0, 1>>}

Inputs == ShortInputs \cup PrefixInputs \cup WholeInputs

Skips == (0..MaxLen) \cup {128}

\* The calls the model makes: the part of the input after the prefix is at
\* most MaxLen bytes long, or the input is one of WholeInputs and is
\* compressed whole.  A call with
\* an empty input or with skip >= input.len() is among them.
Feasible(b, s) == Len(b) - s <= MaxLen \/ (b \in WholeInputs /\ s = 0)

\* ------------------------------------------------------------------------
\* src/src/compressor.rs: the builder
\* ------------------------------------------------------------------------

\* Compressor::new()
Init ==
    /\ skip = 0
    /\ quick_mode = FALSE
    /\ backwards_mode = FALSE
    /\ classic_mode = FALSE
    /\ pc = "idle"
    /\ input = <<>>
    /\ allocator = AllocatorNew
    /\ last_literal = <<>>
    /\ last_match = <<>>
    /\ optimal = <<>>
    /\ match_length = <<>>
    /\ best_length = <<>>
    /\ index = 0
    /\ offset = 0
    /\ best_length_size = 0
    /\ progress = <<>>
    /\ chain = <<>>
    /\ context = NoContext
    /\ pos = 0
    /\ result = NoResult
    /\ kept = NoKept
    /\ gamma = NoGamma

call == <<pc, input, allocator, tables, locals, progress, emitter, result>>

\* Compressor::skip
BuilderSkip(v) ==
    /\ pc = "idle"
    /\ skip' = v
    /\ UNCHANGED <<quick_mode, backwards_mode, classic_mode, call, kept, gamma>>

\* Compressor::quick_mode
BuilderQuickMode(v) ==
    /\ pc = "idle"
    /\ quick_mode' = v
    /\ UNCHANGED <<skip, backwards_mode, classic_mode, call, kept, gamma>>

\* Compressor::backwards_mode
BuilderBackwardsMode(v) ==
    /\ pc = "idle"
    /\ backwards_mode' = v
    /\ UNCHANGED <<skip, quick_mode, classic_mode, call, kept, gamma>>

\* Compressor::classic_mode
BuilderClassicMode(v) ==
    /\ pc = "idle"
    /\ classic_mode' = v
    /\ UNCHANGED <<skip, quick_mode, backwards_mode, call, kept, gamma>>

\* The offset_limit argument Compressor::compress passes to optimize.
offset_limit == IF quick_mode THEN MAX_OFFSET_ZX7 ELSE MAX_OFFSET_ZX0

\* Compressor::compress is entered with the slice b.
CompressCall(b) ==
    /\ pc = "idle"
    /\ Feasible(b, skip)
    /\ input' = b
    /\ pc' = "setup"
    /\ UNCHANGED <<gamma, kept, settings, allocator, tables, locals, progress, emitter, result>>

\* ------------------------------------------------------------------------
\* src/src/optimize.rs: optimize
\* ------------------------------------------------------------------------

\* A call with an empty slice.  input.len() - 1 underflows at line 116: a
\* debug build aborts there; a release build wraps, finds the loop's range
\* empty and aborts at optimal[input.len() - 1], line 222.
SetupEmpty ==
    /\ pc = "setup"
    /\ Len(input) = 0
    /\ pc' = "panicked"
    /\ UNCHANGED <<gamma, kept, settings, input, allocator, tables, locals, progress, emitter, result>>

\* The table with its entry for size 2 set to 1.
NewBestLengthOne(n) == IF n > 2 THEN Put(Zeros(n), 2, 1) ELSE Zeros(n)

\* The tables of lines 119-127.
NewBestLength(n) == IF n > 2 THEN Put(Zeros(n), 2, 2) ELSE Zeros(n)

\* Lines 114-136: the allocator, the tables and the fake block.
Setup ==
    /\ pc = "setup"
    /\ Len(input) > 0
    /\ LET max_offset == offset_ceiling(Len(input) - 1, offset_limit)
           r == assign_new(AllocatorNew, 0, 0, skip - 1, INITIAL_OFFSET, 0)
       IN  /\ allocator' = r.alloc
           /\ last_literal' = Zeros(max_offset + 1)
           /\ last_match' = Put(Zeros(max_offset + 1), INITIAL_OFFSET, r.ptr)
           /\ optimal' = Zeros(Len(input))
           /\ match_length' = Zeros(max_offset + 1)
           /\ best_length' = NewBestLength(Len(input))
    /\ index' = skip
    /\ pc' = "outer"
    /\ UNCHANGED <<gamma, kept, settings, input, offset, best_length_size, progress, emitter, result>>

\* The value the callback receives: index as f32 / (input.len() - skip) as
\* f32, kept as the pair of the dividend and the divisor.
ProgressValue(i) == <<i, Len(input) - skip>>

\* Lines 139-145: the head of the loop over index.
OuterLoop ==
    /\ pc = "outer"
    /\ index < Len(input)
    /\ progress' = IF index % ProgressInterval = 0
                   THEN Append(progress, ProgressValue(index))
                   ELSE progress
    /\ best_length_size' = 2
    /\ offset' = 1
    /\ pc' = "inner"
    /\ UNCHANGED <<gamma, kept, settings, input, allocator, tables, index, emitter, result>>

\* The condition without the test that keeps the first byte a literal.
BytesMatchAtSkip ==
    /\ index >= offset
    /\ At(input, index) = At(input, index - offset)

\* The condition of line 148.
BytesMatch ==
    /\ index >= offset
    /\ index /= skip
    /\ At(input, index) = At(input, index - offset)

\* Lines 147-148: the head of the loop over offset and the test of the byte.
InnerLoop ==
    /\ pc = "inner"
    /\ IF offset > offset_ceiling(index, offset_limit)
       THEN /\ index' = index + 1
            /\ pc' = "outer"
       ELSE /\ index' = index
            /\ pc' = IF BytesMatch THEN "last_offset" ELSE "literals"
    /\ UNCHANGED <<gamma, kept, settings, input, allocator, tables, offset, best_length_size,
                   progress, emitter, result>>

\* The test of lines 159, 196 and 214: the slot's new block improves optimal[index].
Improves(slot) ==
    \/ At(optimal, index) = 0
    \/ get(allocator, At(optimal, index)).bits > get(allocator, slot).bits

\* allocator.assign(&mut optimal[index], slot) when the block improves it.
UpdateOptimal(slot) ==
    IF Improves(slot)
    THEN LET r == assign(allocator, At(optimal, index), slot)
         IN  /\ allocator' = r.alloc
             /\ optimal' = Put(optimal, index, r.ptr)
    ELSE UNCHANGED <<allocator, optimal>>

\* Lines 150-157: copy from last offset.
CopyFromLastOffset ==
    /\ pc = "last_offset"
    /\ IF At(last_literal, offset) /= 0
       THEN LET from == get(allocator, At(last_literal, offset))
                length == index - from.index
                bits == from.bits + 1 + elias_gamma_bits(length)
                r == assign_new(allocator, At(last_match, offset), bits, index, offset,
                                At(last_literal, offset))
            IN  /\ allocator' = r.alloc
                /\ last_match' = Put(last_match, offset, r.ptr)
                /\ pc' = "optimal_last_offset"
       ELSE /\ pc' = "new_offset"
            /\ UNCHANGED <<allocator, last_match>>
    /\ UNCHANGED <<gamma, kept, settings, input, last_literal, optimal, match_length, best_length,
                   locals, progress, emitter, result>>

\* Lines 159-161.
OptimalLastOffset ==
    /\ pc = "optimal_last_offset"
    /\ UpdateOptimal(At(last_match, offset))
    /\ pc' = "new_offset"
    /\ UNCHANGED <<gamma, kept, settings, input, last_literal, last_match, match_length, best_length,
                   locals, progress, emitter, result>>

\* Lines 170-184: the loop that extends best_length up to the match length.
RECURSIVE BestLengthLoop(_, _, _, _)
BestLengthLoop(bl, size, bits, target) ==
    LET size1 == size + 1
        bits2 == get(allocator, At(optimal, index - size1)).bits + elias_gamma_bits(size1 - 1)
        bl1 == IF bits2 <= bits THEN Put(bl, size1, size1)
               ELSE Put(bl, size1, At(bl, size1 - 1))
        bits1 == IF bits2 <= bits THEN bits2 ELSE bits
    IN  IF size1 >= target THEN [best_length |-> bl1, best_length_size |-> size1]
        ELSE BestLengthLoop(bl1, size1, bits1, target)

\* Lines 167-185.
BestLength(target) ==
    IF best_length_size < target
    THEN BestLengthLoop(best_length, best_length_size,
             get(allocator, At(optimal, index - At(best_length, best_length_size))).bits
                 + elias_gamma_bits(At(best_length, best_length_size) - 1),
             target)
    ELSE [best_length |-> best_length, best_length_size |-> best_length_size]

\* The test of line 190.
Replaces(bits) ==
    \/ At(last_match, offset) = 0
    \/ get(allocator, At(last_match, offset)).index /= index
    \/ get(allocator, At(last_match, offset)).bits > bits

\* The cost of line 188.
NewOffsetBits(length) ==
    get(allocator, At(optimal, index - length)).bits + 8
        + elias_gamma_bits((offset - 1) \div 128 + 1) + elias_gamma_bits(length - 1)

\* Lines 165-194: copy from new offset.
CopyFromNewOffset ==
    /\ pc = "new_offset"
    /\ LET ml == At(match_length, offset) + 1
       IN  /\ match_length' = Put(match_length, offset, ml)
           /\ IF ml > 1
              THEN LET b == BestLength(ml)
                       length == At(b.best_length, ml)
                       bits == NewOffsetBits(length)
                   IN  /\ best_length' = b.best_length
                       /\ best_length_size' = b.best_length_size
                       /\ IF Replaces(bits)
                          THEN LET r == assign_new(allocator, At(last_match, offset), bits,
                                            index, offset, At(optimal, index - length))
                               IN  /\ allocator' = r.alloc
                                   /\ last_match' = Put(last_match, offset, r.ptr)
                                   /\ pc' = "optimal_new_offset"
                                   /\ offset' = offset
                          ELSE /\ pc' = "inner"
                               /\ offset' = offset + 1
                               /\ UNCHANGED <<allocator, last_match>>
              ELSE /\ pc' = "inner"
                   /\ offset' = offset + 1
                   /\ UNCHANGED <<allocator, last_match, best_length, best_length_size>>
    /\ UNCHANGED <<gamma, kept, settings, input, last_literal, optimal, index, progress, emitter, result>>

\* Lines 196-198.
OptimalNewOffset ==
    /\ pc = "optimal_new_offset"
    /\ UpdateOptimal(At(last_match, offset))
    /\ pc' = "inner"
    /\ offset' = offset + 1
    /\ UNCHANGED <<gamma, kept, settings, input, last_literal, last_match, match_length, best_length,
                   index, best_length_size, progress, emitter, result>>

\* The cost of line 207.
LiteralBits(from, length) ==
    from.bits + 1 + elias_gamma_bits(length) + length * 8

\* Lines 203-212: copy literals.
CopyLiterals ==
    /\ pc = "literals"
    /\ match_length' = Put(match_length, offset, 0)
    /\ IF At(last_match, offset) /= 0
       THEN LET from == get(allocator, At(last_match, offset))
                length == index - from.index
                r == assign_new(allocator, At(last_literal, offset),
                                LiteralBits(from, length), index, 0, At(last_match, offset))
            IN  /\ allocator' = r.alloc
                /\ last_literal' = Put(last_literal, offset, r.ptr)
                /\ pc' = "optimal_literals"
                /\ offset' = offset
       ELSE /\ pc' = "inner"
            /\ offset' = offset + 1
            /\ UNCHANGED <<allocator, last_literal>>
    /\ UNCHANGED <<gamma, kept, settings, input, last_match, optimal, best_length, index,
                   best_length_size, progress, emitter, result>>

\* Lines 214-216.
OptimalLiterals ==
    /\ pc = "optimal_literals"
    /\ UpdateOptimal(At(last_literal, offset))
    /\ pc' = "inner"
    /\ offset' = offset + 1
    /\ UNCHANGED <<gamma, kept, settings, input, last_literal, last_match, match_length, best_length,
                   index, best_length_size, progress, emitter, result>>

\* ------------------------------------------------------------------------
\* src/src/compressor.rs: the walk from the terminal handle
\* ------------------------------------------------------------------------

\* The handle optimize returns, line 222.
terminal == At(optimal, Len(input) - 1)

\* The walk that stops at the block whose next_index is null, leaving it out.
RECURSIVE WalkWithoutRoot(_, _, _)
WalkWithoutRoot(a, h, n) ==
    IF h = 0 \/ n = 0 \/ get(a, h).next_index = 0 THEN <<>>
    ELSE <<[bits |-> get(a, h).bits, index |-> get(a, h).index, offset |-> get(a, h).offset]>>
             \o WalkWithoutRoot(a, get(a, h).next_index, n - 1)

\* The walk as a loop that tests the handle after pushing its block.
RECURSIVE WalkPushFirst(_, _, _)
WalkPushFirst(a, h, n) ==
    <<[bits |-> get(a, h).bits, index |-> get(a, h).index, offset |-> get(a, h).offset]>>
        \o (IF get(a, h).next_index = 0 \/ n = 0 THEN <<>>
            ELSE WalkPushFirst(a, get(a, h).next_index, n - 1))

\* Lines 145-155 of compressor.rs: the blocks from handle h on, following
\* next_index until the null handle.  n bounds the walk by the number of
\* blocks of the allocator.
RECURSIVE Walk(_, _, _)
Walk(a, h, n) ==
    IF h = 0 \/ n = 0 THEN <<>>
    ELSE <<[bits |-> get(a, h).bits, index |-> get(a, h).index, offset |-> get(a, h).offset]>>
             \o Walk(a, get(a, h).next_index, n - 1)

\* optimize returns (line 222) and Compressor::compress builds the chain.
BuildChain ==
    /\ pc = "outer"
    /\ index >= Len(input)
    /\ chain' = Walk(allocator, terminal, Len(allocator.blocks))
    /\ pc' = "compress"
    /\ UNCHANGED <<gamma, kept, settings, input, allocator, tables, locals, progress, context, pos, result>>

\* ------------------------------------------------------------------------
\* src/src/compress.rs: Context
\* ------------------------------------------------------------------------

\* The bit m (a power of two) of the byte v.
HasBit(v, m) == (v \div m) % 2 = 1

\* v | m for a single bit m.
OrBit(v, m) == IF HasBit(v, m) THEN v ELSE v + m

\* Context::read_bytes
read_bytes(c, n) ==
    LET diff == c.diff + n
    IN  [c EXCEPT !.input_index = c.input_index + n,
                  !.diff = diff,
                  !.delta = IF c.delta < diff THEN diff ELSE c.delta]

\* Context::write_byte; a write outside the buffer aborts (fault).
write_byte(c, value) ==
    IF c.fault THEN c
    ELSE IF c.output_index >= Len(c.output) THEN [c EXCEPT !.fault = TRUE]
    ELSE [c EXCEPT !.output = Put(c.output, c.output_index, value),
                   !.output_index = c.output_index + 1,
                   !.diff = c.diff - 1]

\* The branch of write_bit taken when backtrack is set, lines 50-54.
BacktrackBit(c, value) ==
    IF value /= 0
    THEN IF c.output_index = 0 THEN [c EXCEPT !.fault = TRUE]
         ELSE [c EXCEPT !.output = Put(c.output, c.output_index - 1,
                                       OrBit(At(c.output, c.output_index - 1), 1)),
                        !.backtrack = FALSE]
    ELSE [c EXCEPT !.backtrack = FALSE]

\* The branch of write_bit taken otherwise, lines 56-66.
CarrierBit(c, value) ==
    LET c1 == IF c.bit_mask = 0
              THEN write_byte([c EXCEPT !.bit_mask = 128, !.bit_index = c.output_index], 0)
              ELSE c
    IN  IF c1.fault THEN c1
        ELSE [c1 EXCEPT !.output = IF value /= 0
                                   THEN Put(c1.output, c1.bit_index,
                                            OrBit(At(c1.output, c1.bit_index), c1.bit_mask))
                                   ELSE c1.output,
                        !.bit_mask = c1.bit_mask \div 2]

\* Context::write_bit
write_bit(c, value) ==
    IF c.fault THEN c
    ELSE IF c.backtrack THEN BacktrackBit(c, value)
    ELSE CarrierBit(c, value)

\* Lines 76-82: the highest power of two that is at most value (1 for value 0).
RECURSIVE TopBitFrom(_, _)
TopBitFrom(i, value) == IF i <= value THEN TopBitFrom(2 * i, value) ELSE i \div 2

\* The data bit written as it is in both modes.
DataBitNeverInverted(value, i, invert_mode) == IF HasBit(value, i) THEN 1 ELSE 0

\* The data bit of lines 95-105.
DataBit(value, i, invert_mode) ==
    IF invert_mode THEN (IF HasBit(value, i) THEN 0 ELSE 1)
    ELSE (IF HasBit(value, i) THEN 1 ELSE 0)

\* The continuation bit of line 91 and the terminator bit of line 110.
ContinuationBit(backwards) == IF backwards THEN 1 ELSE 0

TerminatorBit(backwards) == IF ~backwards THEN 1 ELSE 0

\* Lines 84-107: a continuation bit and a data bit for every bit below i.
RECURSIVE GammaLoop(_, _, _, _, _)
GammaLoop(c, value, i, backwards, invert_mode) ==
    LET j == i \div 2
    IN  IF j = 0 THEN c
        ELSE GammaLoop(write_bit(write_bit(c, ContinuationBit(backwards)),
                                 DataBit(value, j, invert_mode)),
                       value, j, backwards, invert_mode)

\* Context::write_interlaced_elias_gamma
write_interlaced_elias_gamma(c, value, backwards, invert_mode) ==
    write_bit(GammaLoop(c, value, TopBitFrom(2, value), backwards, invert_mode),
              TerminatorBit(backwards))

\* The context of a call of write_interlaced_elias_gamma on its own: a
\* buffer of zeros, the cursor at its start, backtrack clear.
GammaContext ==
    [backtrack |-> FALSE, bit_mask |-> 0, bit_index |-> 0, input_index |-> 0,
     output |-> Zeros(4), output_index |-> 0, diff |-> 0, delta |-> 0,
     last_offset |-> INITIAL_OFFSET, fault |-> FALSE]

\* Lines 70-82: the call and the search of the value's top bit.
GammaCall(value, backwards, invert_mode) ==
    /\ gamma.stage = "idle"
    /\ gamma' = [stage |-> "loop", value |-> value, backwards_mode |-> backwards,
                 invert_mode |-> invert_mode, i |-> TopBitFrom(2, value),
                 written |-> <<>>, context |-> GammaContext]
    /\ UNCHANGED <<settings, call, kept>>

\* Lines 84-107: one turn of the loop, two calls of write_bit, or its exit.
GammaTurn ==
    /\ gamma.stage = "loop"
    /\ LET j == gamma.i \div 2
           continuation == ContinuationBit(gamma.backwards_mode)
           data == DataBit(gamma.value, j, gamma.invert_mode)
       IN  gamma' = IF j = 0 THEN [gamma EXCEPT !.i = j, !.stage = "terminator"]
                    ELSE [gamma EXCEPT !.i = j,
                              !.written = gamma.written \o <<continuation, data>>,
                              !.context = write_bit(write_bit(gamma.context, continuation), data)]
    /\ UNCHANGED <<settings, call, kept>>

\* Lines 109-111: the last call of write_bit.
GammaTerminator ==
    /\ gamma.stage = "terminator"
    /\ gamma' = [gamma EXCEPT !.stage = "done",
                     !.written = Append(gamma.written, TerminatorBit(gamma.backwards_mode)),
                     !.context = write_bit(gamma.context, TerminatorBit(gamma.backwards_mode))]
    /\ UNCHANGED <<settings, call, kept>>

\* The call has returned; the context is dropped.
GammaReturn ==
    /\ gamma.stage = "done"
    /\ gamma' = NoGamma
    /\ UNCHANGED <<settings, call, kept>>

\* ------------------------------------------------------------------------
\* src/src/compress.rs: compress
\* ------------------------------------------------------------------------

\* invert_mode derived from classic_mode alone.
InvertModeClassicOnly(classic, backwards) == ~classic

\* Line 160 of compressor.rs.
InvertMode(classic, backwards) == ~classic /\ ~backwards

\* The size rounded up instead of down.
OutputSizeCeiling(bits) == (bits + 25 + 7) \div 8

\* The size without the room for the end marker.
OutputSizeNoEndMarker(bits) == (bits + 7) \div 8

\* Line 124.
OutputSize(bits) == (bits + 25) \div 8

\* The context with the sign of the input's length slipped in diff.
NewContextSignSlip(b, s, output_size) ==
    [backtrack |-> TRUE, bit_mask |-> 0, bit_index |-> 0, input_index |-> s,
     output |-> Zeros(output_size), output_index |-> 0,
     diff |-> output_size + Len(b) - s, delta |-> 0,
     last_offset |-> INITIAL_OFFSET, fault |-> FALSE]

\* Lines 133-142, with delta (0, line 161 of compressor.rs) and last_offset.
NewContext(b, s, output_size) ==
    [backtrack |-> TRUE, bit_mask |-> 0, bit_index |-> 0, input_index |-> s,
     output |-> Zeros(output_size), output_index |-> 0,
     diff |-> output_size - Len(b) + s, delta |-> 0,
     last_offset |-> INITIAL_OFFSET, fault |-> FALSE]

\* Lines 156-160: n literal bytes, each read from the input and written.
RECURSIVE LiteralBytes(_, _, _)
LiteralBytes(c, b, n) ==
    IF n = 0 \/ c.fault THEN c
    ELSE IF c.input_index >= Len(b) THEN [c EXCEPT !.fault = TRUE]
    ELSE LiteralBytes(read_bytes(write_byte(c, At(b, c.input_index)), 1), b, n - 1)

\* The byte without the shift that clears its low bit.
OffsetByteUnshifted(off, backwards) ==
    IF backwards THEN (off - 1) % 128
    ELSE 127 - ((off - 1) % 128)

\* The byte of backwards mode written in forward mode too.
OffsetByteSameInBothModes(off, backwards) == ((off - 1) % 128) * 2

\* Lines 176-180: the byte of the offset's low seven bits.
OffsetByte(off, backwards) ==
    IF backwards THEN ((off - 1) % 128) * 2
    ELSE (127 - ((off - 1) % 128)) * 2

\* Lines 150-160: a literal run.
WriteLiterals(c, b, length, backwards) ==
    LiteralBytes(write_interlaced_elias_gamma(write_bit(c, 0), length, backwards, FALSE),
                 b, length)

\* Lines 163-167: a copy from the last offset.
WriteLastOffset(c, length, backwards) ==
    read_bytes(write_interlaced_elias_gamma(write_bit(c, 0), length, backwards, FALSE), length)

\* Lines 170-181: the indicator, the offset's high part and its low byte.
WriteOffset(c, off, backwards, invert_mode) ==
    write_byte(write_interlaced_elias_gamma(write_bit(c, 1), (off - 1) \div 128 + 1,
                                            backwards, invert_mode),
               OffsetByte(off, backwards))

\* Lines 170-187: a copy from a new offset.  length - 1 underflows for
\* length 0 (fault).
WriteNewOffset(c, off, length, backwards, invert_mode) ==
    LET c2 == WriteOffset(c, off, backwards, invert_mode)
        c3 == IF length < 1 THEN [c2 EXCEPT !.fault = TRUE]
              ELSE write_interlaced_elias_gamma([c2 EXCEPT !.backtrack = TRUE], length - 1,
                                                backwards, FALSE)
    IN  [read_bytes(c3, length) EXCEPT !.last_offset = off]

\* Lines 146-188: the body of the loop over the windows of the chain.  A
\* negative difference of the indexes does not fit usize (fault).
WriteBlock(c, b, previous_block, current_block, backwards, invert_mode) ==
    LET length == current_block.index - previous_block.index
    IN  IF length < 0 THEN [c EXCEPT !.fault = TRUE]
        ELSE IF current_block.offset = 0 THEN WriteLiterals(c, b, length, backwards)
        ELSE IF current_block.offset = c.last_offset THEN WriteLastOffset(c, length, backwards)
        ELSE WriteNewOffset(c, current_block.offset, length, backwards, invert_mode)

\* Lines 192-193: the end marker.
WriteEndMarker(c, backwards, invert_mode) ==
    write_interlaced_elias_gamma(write_bit(c, 1), 256, backwards, invert_mode)

\* Lines 123-125 with an empty chain: chain[0] is out of bounds.
CompressEmpty ==
    /\ pc = "compress"
    /\ chain = <<>>
    /\ pc' = "panicked"
    /\ UNCHANGED <<gamma, kept, settings, input, allocator, tables, locals, progress, emitter, result>>

\* Lines 123-142: the output buffer, the chain in forward order, the context.
CompressInit ==
    /\ pc = "compress"
    /\ chain /= <<>>
    /\ context' = NewContext(input, skip, OutputSize(chain[1].bits))
    /\ chain' = Reverse(chain)
    /\ pos' = 1
    /\ pc' = "emit"
    /\ UNCHANGED <<gamma, kept, settings, input, allocator, tables, locals, progress, result>>

\* Lines 145-189: one window of the chain.
EmitBlock ==
    /\ pc = "emit"
    /\ pos < Len(chain)
    /\ context' = WriteBlock(context, input, chain[pos], chain[pos + 1], backwards_mode,
                             InvertMode(classic_mode, backwards_mode))
    /\ pos' = pos + 1
    /\ pc' = IF context'.fault THEN "panicked" ELSE "emit"
    /\ UNCHANGED <<gamma, kept, settings, input, allocator, tables, locals, progress, chain, result>>

\* Lines 191-193.
EndMarker ==
    /\ pc = "emit"
    /\ pos >= Len(chain)
    /\ context' = WriteEndMarker(context, backwards_mode,
                                 InvertMode(classic_mode, backwards_mode))
    /\ pc' = IF context'.fault THEN "panicked" ELSE "finish"
    /\ UNCHANGED <<gamma, kept, settings, input, allocator, tables, locals, progress, chain, pos, result>>

\* The return of a compress that takes the prefix length out of the instance.
ReturnTakingSkip ==
    /\ pc = "finish"
    /\ result' = [output |-> context.output, delta |-> context.delta, returned |-> TRUE]
    /\ pc' = "returned"
    /\ skip' = 0
    /\ UNCHANGED <<gamma, kept, quick_mode, backwards_mode, classic_mode, input, allocator,
                   tables, locals, progress, emitter>>

\* Lines 172-175 of compressor.rs: the CompressionResult.
Return ==
    /\ pc = "finish"
    /\ result' = [output |-> context.output, delta |-> context.delta, returned |-> TRUE]
    /\ pc' = "returned"
    /\ UNCHANGED <<gamma, kept, settings, input, allocator, tables, locals, progress, emitter>>

\* The caller drops the result; the Compressor is ready for another call.
Reuse ==
    /\ pc = "returned"
    /\ pc' = "idle"
    /\ input' = <<>>
    /\ allocator' = AllocatorNew
    /\ last_literal' = <<>>
    /\ last_match' = <<>>
    /\ optimal' = <<>>
    /\ match_length' = <<>>
    /\ best_length' = <<>>
    /\ index' = 0
    /\ offset' = 0
    /\ best_length_size' = 0
    /\ progress' = <<>>
    /\ chain' = <<>>
    /\ context' = NoContext
    /\ pos' = 0
    /\ result' = NoResult
    /\ UNCHANGED <<gamma, kept, settings>>

\* The caller keeps the CompressionResult (an owned Vec<u8> and a usize,
\* lines 12-28 of compressor.rs) next to the slice and the settings of the
\* call, to compare a later call against it.
Keep ==
    /\ pc = "returned"
    /\ ~kept.held
    /\ kept' = [held |-> TRUE, input |-> input, skip |-> skip, quick_mode |-> quick_mode,
                backwards_mode |-> backwards_mode, classic_mode |-> classic_mode,
                output |-> result.output, delta |-> result.delta]
    /\ UNCHANGED <<gamma, settings, call>>

\* ------------------------------------------------------------------------
\* The specification
\* ------------------------------------------------------------------------

Builder ==
    \/ \E v \in Skips : BuilderSkip(v)
    \/ \E v \in BOOLEAN : BuilderQuickMode(v)
    \/ \E v \in BOOLEAN : BuilderBackwardsMode(v)
    \/ \E v \in BOOLEAN : BuilderClassicMode(v)

Optimize ==
    \/ SetupEmpty
    \/ Setup
    \/ OuterLoop
    \/ InnerLoop
    \/ CopyFromLastOffset
    \/ OptimalLastOffset
    \/ CopyFromNewOffset
    \/ OptimalNewOffset
    \/ CopyLiterals
    \/ OptimalLiterals

Emit ==
    \/ BuildChain
    \/ CompressEmpty
    \/ CompressInit
    \/ EmitBlock
    \/ EndMarker
    \/ Return

Next ==
    \/ Builder
    \/ \E b \in Inputs : CompressCall(b)
    \/ Optimize
    \/ Emit
    \/ Reuse

Spec == Init /\ [][Next]_vars

\* The calls of a caller that keeps one result and calls again: the slices
\* are few, so that every pair of calls is made.
NextReuse ==
    \/ Builder
    \/ \E b \in ReuseInputs : CompressCall(b)
    \/ Optimize
    \/ Emit
    \/ Keep
    \/ Reuse

SpecReuse == Init /\ [][NextReuse]_vars

\* write_interlaced_elias_gamma on its own, for every value up to MaxValue
\* and every pair of modes.
NextGamma ==
    \/ \E value \in 1..MaxValue : \E backwards, invert_mode \in BOOLEAN :
           GammaCall(value, backwards, invert_mode)
    \/ GammaTurn
    \/ GammaTerminator
    \/ GammaReturn

SpecGamma == Init /\ [][NextGamma]_vars

\* ------------------------------------------------------------------------
\* A ZX0 decoder, written from the bit format the emitter documents: the
\* stream starts inside a literal run; after a literal run a 0 bit announces
\* a copy from the last offset and a 1 bit a copy from a new offset; after a
\* copy a 0 bit announces a literal run and a 1 bit a copy from a new offset;
\* an offset whose high part reads 256 ends the stream.  The decoder works
\* on the stream and the data in the order Compressor::compress sees them
\* (src/src/main.rs reverses both in backwards mode).
\* ------------------------------------------------------------------------

\* The decoder's state: the stream and the read position, the current
\* carrier byte and mask, the last byte read, the data decoded so far
\* (after the prefix), and the bound on its length.
NewDecoder(stream, prefix, limit) ==
    [stream |-> stream, i |-> 0, bit_mask |-> 0, bit_value |-> 0, backtrack |-> FALSE,
     last_byte |-> 0, data |-> prefix, limit |-> limit, last_offset |-> INITIAL_OFFSET,
     v |-> 0, fail |-> FALSE, done |-> FALSE]

DecoderReadByte(d) ==
    IF d.fail THEN d
    ELSE IF d.i >= Len(d.stream) THEN [d EXCEPT !.fail = TRUE]
    ELSE [d EXCEPT !.last_byte = At(d.stream, d.i), !.v = At(d.stream, d.i), !.i = d.i + 1]

DecoderReadBit(d) ==
    IF d.fail THEN d
    ELSE IF d.backtrack THEN [d EXCEPT !.backtrack = FALSE, !.v = d.last_byte % 2]
    ELSE IF d.bit_mask \div 2 = 0
         THEN LET d1 == DecoderReadByte(d)
              IN  IF d1.fail THEN d1
                  ELSE [d1 EXCEPT !.bit_mask = 128, !.bit_value = d1.v,
                                  !.v = IF HasBit(d1.v, 128) THEN 1 ELSE 0]
         ELSE [d EXCEPT !.bit_mask = d.bit_mask \div 2,
                        !.v = IF HasBit(d.bit_value, d.bit_mask \div 2) THEN 1 ELSE 0]

\* An interlaced Elias-Gamma code: data bits follow continuation bits until
\* the terminator bit.
RECURSIVE DecoderGamma(_, _, _, _)
DecoderGamma(d, value, backwards, invert_mode) ==
    LET b == DecoderReadBit(d)
    IN  IF b.fail \/ value > 65535 THEN [b EXCEPT !.fail = TRUE]
        ELSE IF b.v = ContinuationBit(backwards)
        THEN LET b2 == DecoderReadBit(b)
                 bit == IF invert_mode THEN 1 - b2.v ELSE b2.v
             IN  IF b2.fail THEN b2
                 ELSE DecoderGamma(b2, 2 * value + bit, backwards, invert_mode)
        ELSE [b EXCEPT !.v = value]

\* n bytes copied from off bytes back in the data.
RECURSIVE DecoderCopy(_, _, _)
DecoderCopy(d, off, n) ==
    IF d.fail \/ n = 0 THEN d
    ELSE IF off > Len(d.data) \/ Len(d.data) >= d.limit THEN [d EXCEPT !.fail = TRUE]
    ELSE DecoderCopy([d EXCEPT !.data = Append(d.data, d.data[Len(d.data) + 1 - off])],
                     off, n - 1)

\* n bytes taken from the stream.
RECURSIVE DecoderBytes(_, _)
DecoderBytes(d, n) ==
    IF d.fail \/ n = 0 THEN d
    ELSE IF Len(d.data) >= d.limit THEN [d EXCEPT !.fail = TRUE]
    ELSE LET d1 == DecoderReadByte(d)
         IN  IF d1.fail THEN d1
             ELSE DecoderBytes([d1 EXCEPT !.data = Append(d1.data, d1.v)], n - 1)

\* The offset a new-offset token carries: its high part and its byte.
DecoderOffset(msb, byte, backwards) ==
    IF backwards THEN msb * 128 - 127 + (byte \div 2)
    ELSE msb * 128 - (byte \div 2)

RECURSIVE DecoderLiterals(_, _, _)
RECURSIVE DecoderLastOffset(_, _, _)
RECURSIVE DecoderNewOffset(_, _, _)

DecoderLiterals(d, backwards, invert_mode) ==
    LET g == DecoderGamma(d, 1, backwards, FALSE)
        c == DecoderReadBit(DecoderBytes(g, g.v))
    IN  IF c.fail THEN c
        ELSE IF c.v = 1 THEN DecoderNewOffset(c, backwards, invert_mode)
        ELSE DecoderLastOffset(c, backwards, invert_mode)

DecoderLastOffset(d, backwards, invert_mode) ==
    LET g == DecoderGamma(d, 1, backwards, FALSE)
        c == DecoderReadBit(DecoderCopy(g, g.last_offset, g.v))
    IN  IF c.fail THEN c
        ELSE IF c.v = 1 THEN DecoderNewOffset(c, backwards, invert_mode)
        ELSE DecoderLiterals(c, backwards, invert_mode)

DecoderNewOffset(d, backwards, invert_mode) ==
    LET m == DecoderGamma(d, 1, backwards, invert_mode)
    IN  IF m.fail THEN m
        ELSE IF m.v = 256 THEN [m EXCEPT !.done = TRUE]
        ELSE LET y == DecoderReadByte(m)
                 off == DecoderOffset(m.v, y.v, backwards)
                 g == DecoderGamma([y EXCEPT !.backtrack = TRUE], 1, backwards, FALSE)
                 c == DecoderReadBit(DecoderCopy([g EXCEPT !.last_offset = off], off, g.v + 1))
             IN  IF y.fail \/ c.fail THEN [c EXCEPT !.fail = TRUE]
                 ELSE IF c.v = 1 THEN DecoderNewOffset(c, backwards, invert_mode)
                 ELSE DecoderLiterals(c, backwards, invert_mode)

\* The data a decoder of the mode obtains from the stream with the prefix in
\* place; <<"fail">> when the stream is malformed.
Decode(stream, prefix, limit, backwards, classic) ==
    LET d == DecoderLiterals(NewDecoder(stream, prefix, limit), backwards,
                             InvertMode(classic, backwards))
    IN  IF d.fail \/ ~d.done THEN <<"fail">> ELSE d.data

\* ------------------------------------------------------------------------
\* Claims
\* ------------------------------------------------------------------------

\* C1. Round trip: the output of every returned compress call, decoded by a
\* ZX0 decoder of the same mode that holds the prefix input[0..skip], is the
\* whole input again: the prefix followed by exactly input[skip..].
C1_RoundTrip ==
    pc = "returned" =>
        Decode(result.output, SubSeq(input, 1, skip), Len(input),
               backwards_mode, classic_mode) = input

\* C1 witness: a returned call in backwards mode with a prefix and a copy
\* from an offset above 128.
C1_Witness ==
    /\ pc = "returned"
    /\ skip > 0
    /\ backwards_mode
    /\ \E i \in 1..Len(chain) : chain[i].offset > 128

\* The ZX0 tokenizations of a byte string from position p on, and their
\* costs.  A literal run follows the start or a copy; a copy from the last
\* offset follows a literal run; a copy from a new offset, two bytes or
\* more, follows a literal run or a copy.  A copy of l bytes from offset o
\* at p needs every byte p..p+l-1 to equal the byte o places before it.
Matches(b, p, o, l) ==
    \A j \in p..(p + l - 1) : j - o >= 0 /\ At(b, j) = At(b, j - o)

\* The least element of a set of costs; a cost no tokenization has when the
\* set is empty.
Least(S) == IF S = {} THEN 1000000 ELSE CHOOSE x \in S : \A y \in S : x <= y

\* The least cost, in the bits the optimizer counts, of a tokenization of
\* b[p..] after a token of the given kind with the given last offset.
RECURSIVE MinBits(_, _, _, _, _)
MinBits(b, limit, p, last, kind) ==
    IF p = Len(b) THEN 0
    ELSE LET rest == Len(b) - p
             literals ==
                 IF kind /= "literal"
                 THEN {1 + elias_gamma_bits(l) + 8 * l + MinBits(b, limit, p + l, last, "literal") :
                          l \in 1..rest}
                 ELSE {}
             repeats ==
                 IF kind = "literal"
                 THEN {1 + elias_gamma_bits(l) + MinBits(b, limit, p + l, last, "copy") :
                          l \in {k \in 1..rest : Matches(b, p, last, k)}}
                 ELSE {}
             copies ==
                 IF kind /= "start"
                 THEN UNION {
                          {8 + elias_gamma_bits((o - 1) \div 128 + 1) + elias_gamma_bits(l - 1)
                               + MinBits(b, limit, p + l, o, "copy") :
                              l \in {k \in 2..rest : Matches(b, p, o, k)}} :
                          o \in 1..(IF p < limit THEN p ELSE limit)}
                 ELSE {}
         IN  Least(literals \cup repeats \cup copies)

\* C2. Optimality: when optimize has returned, the bits of the terminal
\* block are the least cost of any ZX0 tokenization of input[skip..] with
\* offsets up to offset_limit: no tokenization costs less.
C2_Optimal ==
    (pc = "compress" /\ chain /= <<>>) =>
        chain[1].bits = MinBits(input, offset_limit, skip, INITIAL_OFFSET, "start")

\* C3. Every value the progress callback has received lies in [0, 1]: the
\* dividend is not negative and not above the (positive) divisor.
C3_ProgressInUnitInterval ==
    \A i \in 1..Len(progress) :
        /\ progress[i][2] > 0
        /\ 0 <= progress[i][1]
        /\ progress[i][1] <= progress[i][2]

\* C4. The delta a compress call returns is not negative and not above the
\* larger of the output's length and the length of the input after the prefix.
C4_DeltaBound ==
    pc = "returned" =>
        /\ result.delta >= 0
        /\ result.delta <= Max(Len(result.output), Len(input) - skip)

\* C4 witness: a returned call with a prefix whose delta is above the length
\* of the input after the prefix, so that the output's length is what bounds it.
C4_Witness ==
    /\ pc = "returned"
    /\ skip > 0
    /\ result.delta > Len(input) - skip

\* A call that violates the precondition: an empty input or a prefix that
\* leaves nothing to compress.
InvalidCall == Len(input) = 0 \/ skip >= Len(input)

\* C6. A call with an empty input or with skip >= input.len() never yields
\* a result: the loop over index never runs, the chain is empty, the call
\* never reaches the emitter or the return, and no CompressionResult exists.
C6_NoResultOnViolation ==
    (pc /= "idle" /\ InvalidCall) =>
        /\ pc \in {"setup", "outer", "compress", "panicked"}
        /\ pc = "outer" => index >= Len(input)
        /\ pc = "compress" => chain = <<>>
        /\ ~result.returned

\* C6 witness: a call with a non-empty input and skip >= input.len() has
\* aborted.
C6_Witness ==
    /\ pc = "panicked"
    /\ Len(input) > 0
    /\ skip >= Len(input)

\* C7 as claimed. With skip = input.len() - 1 the returned stream holds the
\* end marker only: no block of the chain was written as a token.
C7_EndMarkerOnly ==
    (pc = "returned" /\ skip = Len(input) - 1) => Len(chain) = 1

\* C7 as amended. With skip = input.len() - 1 the call does not abort, and
\* the stream it returns is one literal run of length 1, which carries the
\* last byte of the input, followed by the end marker: four bytes, the
\* second of them the literal.
C7_OneLiteralThenEndMarker ==
    (pc \notin {"idle", "setup"} /\ Len(input) > 0 /\ skip = Len(input) - 1) =>
        /\ pc /= "panicked"
        /\ pc = "returned" =>
              /\ Len(chain) = 2
              /\ chain[1].index = skip - 1
              /\ chain[2].offset = 0
              /\ chain[2].index = skip
              /\ Len(result.output) = 4
              /\ result.output[2] = input[Len(input)]
              /\ context.input_index = Len(input)

\* C7 witness: a returned call with a 128-byte prefix and one byte to compress.
C7_Witness ==
    /\ pc = "returned"
    /\ skip = 128
    /\ Len(input) = 129

\* The blocks reachable from a set of handles by next_index.
RECURSIVE ReachableFrom(_, _)
ReachableFrom(a, S) ==
    LET T == S \cup ({get(a, h).next_index : h \in S} \ {0})
    IN  IF T = S THEN S ELSE ReachableFrom(a, T)

\* The live handles: the nonzero entries of last_literal, last_match and optimal.
Range(v) == {v[i] : i \in 1..Len(v)}

LiveHandles == (Range(last_literal) \cup Range(last_match) \cup Range(optimal)) \ {0}

\* optimize is running: the tables exist and every allocator call so far is complete.
InOptimize ==
    pc \in {"outer", "inner", "last_offset", "optimal_last_offset", "new_offset",
            "optimal_new_offset", "literals", "optimal_literals"}

Handles == 1..(Len(allocator.blocks) - 1)

OnFreeList(h) == \E i \in 1..Len(allocator.free_list) : allocator.free_list[i] = h

\* C9. At every step of optimize a block has refcount > 0 exactly when it is
\* reachable from a live handle, and every unreachable block is on the free list.
C9_RefcountIffReachable ==
    InOptimize =>
        \A h \in Handles :
            /\ get(allocator, h).refcount > 0 <=> h \in ReachableFrom(allocator, LiveHandles)
            /\ h \notin ReachableFrom(allocator, LiveHandles) => OnFreeList(h)

\* C10. After every assign and assign_new call of optimize, every block
\* (the block of the null handle aside) with refcount 0 is on the free list
\* exactly once, and no block with refcount > 0 is on the free list.
C10_FreeList ==
    InOptimize =>
        \A h \in Handles :
            LET places == {i \in 1..Len(allocator.free_list) : allocator.free_list[i] = h}
            IN  /\ get(allocator, h).refcount = 0 => Cardinality(places) = 1
                /\ get(allocator, h).refcount > 0 => places = {}

\* C10 witness: after an assign call that released the block optimal[index]
\* held, the free list holds a block of refcount 0 while another block is
\* referenced twice.
C10_Witness ==
    /\ pc = "inner"
    /\ allocator.free_list /= <<>>
    /\ \E h \in Handles : get(allocator, h).refcount = 0
    /\ \E h \in Handles : get(allocator, h).refcount > 1

\* The call that has returned and the call whose result the caller kept
\* were made with the same slice, prefix length and quick_mode.
SameSliceAsKept ==
    /\ pc = "returned"
    /\ kept.held
    /\ kept.input = input
    /\ kept.skip = skip
    /\ kept.quick_mode = quick_mode

SameResultAsKept ==
    /\ result.output = kept.output
    /\ result.delta = kept.delta

\* C5. A compress call returns the output bytes and the delta that an earlier
\* call on the same instance returned for the same input and the same
\* settings, whatever builder calls and compress calls were made in between;
\* and from the entry of a compress call to the moment its result is dropped
\* no step changes skip, quick_mode, backwards_mode or classic_mode.
C5_DeterministicStateless ==
    /\ []((/\ SameSliceAsKept
           /\ kept.backwards_mode = backwards_mode
           /\ kept.classic_mode = classic_mode) => SameResultAsKept)
    /\ [][(pc /= "idle" \/ pc' /= "idle") => settings' = settings]_vars

\* C5 witness: a call with a prefix has returned while the caller holds the
\* result of an earlier call with the same input and settings.
C5_Witness ==
    /\ SameSliceAsKept
    /\ kept.backwards_mode = backwards_mode
    /\ kept.classic_mode = classic_mode
    /\ Len(input) = 4
    /\ skip = 1

\* C8. In backwards mode classic_mode has no effect: a call with
\* backwards_mode set returns the output bytes and the delta that a call
\* with the same input, skip and quick_mode, backwards_mode set and the other
\* classic_mode returned; invert_mode is false in both, and the Elias-Gamma
\* codes use continuation bit 1 and terminator bit 0.
C8_ClassicHasNoEffectBackwards ==
    (/\ SameSliceAsKept
     /\ kept.backwards_mode
     /\ backwards_mode
     /\ kept.classic_mode /= classic_mode) =>
        /\ SameResultAsKept
        /\ ~InvertMode(classic_mode, backwards_mode)
        /\ ~InvertMode(kept.classic_mode, kept.backwards_mode)
        /\ ContinuationBit(backwards_mode) = 1
        /\ TerminatorBit(backwards_mode) = 0

\* C8 witness: a backwards call in classic mode has returned while the
\* caller holds the result of a backwards call on the same four bytes
\* without classic mode.
C8_Witness ==
    /\ SameSliceAsKept
    /\ kept.backwards_mode
    /\ backwards_mode
    /\ ~kept.classic_mode
    /\ classic_mode
    /\ Len(input) = 4

\* The nonzero handles the tables ll, lm and opt hold.
LiveIn(ll, lm, opt) == (Range(ll) \cup Range(lm) \cup Range(opt)) \ {0}

\* The number of references to the block h: the table slots that hold h and
\* the reachable blocks whose next_index is h.
References(a, ll, lm, opt, h) ==
    Cardinality({i \in 1..Len(ll) : ll[i] = h})
        + Cardinality({i \in 1..Len(lm) : lm[i] = h})
        + Cardinality({i \in 1..Len(opt) : opt[i] = h})
        + Cardinality({g \in ReachableFrom(a, LiveIn(ll, lm, opt)) : get(a, g).next_index = h})

\* The fields of a block that a link to it relies on.
Payload(a, h) ==
    <<get(a, h).bits, get(a, h).index, get(a, h).offset, get(a, h).next_index>>

\* C11. No use-after-free.  At every step of optimize and at its return no
\* block reachable from a nonzero entry of last_literal, last_match or optimal
\* is on the free list; and a step that overwrites a block of the arena
\* leaves it with one reference only, the slot assign_new has just set, so
\* that no link made earlier reaches the overwritten block.
C11_NoUseAfterFree ==
    /\ []((InOptimize \/ pc = "compress") =>
             \A h \in ReachableFrom(allocator, LiveHandles) :
                 /\ ~OnFreeList(h)
                 /\ get(allocator, h).refcount
                        >= References(allocator, last_literal, last_match, optimal, h))
    /\ [][(InOptimize /\ InOptimize') =>
             \A h \in Handles :
                 Payload(allocator', h) /= Payload(allocator, h) =>
                     /\ OnFreeList(h) \/ get(allocator, h).refcount = 1
                     /\ References(allocator', last_literal', last_match', optimal', h) = 1]_vars

\* C11 witness: optimize has returned a chain one of whose blocks sits at a
\* recycled handle: a handle below that of a block with a smaller index.
C11_Witness ==
    /\ pc = "compress"
    /\ chain /= <<>>
    /\ \E h \in ReachableFrom(allocator, {terminal}) :
           \E g \in Handles : h < g /\ get(allocator, h).index > get(allocator, g).index

\* A position at or after skip whose optimal entry is set.
Processed(i) == i >= skip /\ i < Len(input) /\ At(optimal, i) /= 0

\* C12. The null handle is never dereferenced in optimize.  Every position
\* from skip up to the one being processed has a nonzero optimal entry; the
\* handle passed to assign as its target is nonzero; and where the copy from
\* a new offset reads optimal[index - best_length[best_length_size]],
\* optimal[index - best_length_size] for each size up to the match length, and
\* optimal[index - length], the position read is at or after skip and its
\* entry is nonzero.  (The reads of last_literal[offset], last_match[offset]
\* and optimal[index] are guarded by a test against 0 in the code.)
C12_NullNeverRead ==
    InOptimize =>
        /\ \A i \in skip..(index - 1) : Processed(i)
        /\ pc \in {"optimal_last_offset", "optimal_new_offset"} => At(last_match, offset) /= 0
        /\ pc = "optimal_literals" => At(last_literal, offset) /= 0
        /\ (pc = "new_offset" /\ At(match_length, offset) + 1 > 1) =>
              LET ml == At(match_length, offset) + 1
                  length == At(BestLength(ml).best_length, ml)
              IN  /\ \A l \in 2..ml : Processed(index - l)
                  /\ best_length_size < ml =>
                         Processed(index - At(best_length, best_length_size))
                  /\ length \in 2..ml
                  /\ Processed(index - length)

\* C12 witness: behind a prefix, a copy from a new offset is costed whose
\* match length reaches back to the first position after the prefix.
C12_Witness ==
    /\ pc = "new_offset"
    /\ skip > 0
    /\ At(match_length, offset) + 1 > 1
    /\ index - (At(match_length, offset) + 1) = skip

\* The bits field of the terminal block, once compress has put the chain in
\* forward order.
TerminalBits == chain[Len(chain)].bits

\* C13 as claimed.  The returned output is ceiling((terminal.bits + 25) / 8)
\* bytes long.
C13_CeilingSize ==
    pc = "returned" => Len(result.output) = (TerminalBits + 25 + 7) \div 8

\* C13 as amended.  The returned output is floor((terminal.bits + 25) / 8)
\* bytes long, which is the number of bytes the terminal.bits + 18 bits of
\* the stream (the tokens, the end marker's indicator and its 17-bit
\* Elias-Gamma code) occupy; terminal.bits is even, so this is one byte less
\* than the ceiling of (terminal.bits + 25) / 8.
C13_FloorSize ==
    pc = "returned" =>
        /\ Len(result.output) = (TerminalBits + 25) \div 8
        /\ Len(result.output) = (TerminalBits + 18 + 7) \div 8
        /\ TerminalBits % 2 = 0
        /\ Len(result.output) = (TerminalBits + 25 + 7) \div 8 - 1

\* C13 witness: a returned call whose chain holds a copy and a literal run.
C13_Witness ==
    /\ pc = "returned"
    /\ Len(chain) > 2
    /\ \E i \in 2..Len(chain) : chain[i].offset > 0

\* C14. The emitter fills the buffer exactly.  No write of a call with a
\* valid input and skip falls outside the buffer (the call does not abort
\* and the cursor stays within the buffer), and when compress returns the
\* output cursor is at the end of the returned vector and the input cursor
\* at the end of the input.
C14_ExactFill ==
    /\ (pc = "panicked" /\ ~InvalidCall) => FALSE
    /\ pc \in {"emit", "finish", "returned"} =>
          /\ ~context.fault
          /\ context.output_index <= Len(context.output)
    /\ pc = "returned" =>
          /\ context.output_index = Len(result.output)
          /\ context.input_index = Len(input)
          /\ Len(result.output) = OutputSize(TerminalBits)

\* C14 witness: a returned backwards call behind a prefix that wrote at
\* least two tokens and left the cursor at the end of a buffer of more than
\* four bytes.
C14_Witness ==
    /\ pc = "returned"
    /\ skip > 0
    /\ backwards_mode
    /\ Len(chain) > 2
    /\ Len(result.output) > 4
    /\ context.output_index = Len(result.output)

\* C15. The chain walked from the terminal handle of a call with a valid
\* input and skip: the walk ends (every link leads to a block of strictly
\* smaller index, and the walk visits fewer blocks than the arena holds
\* elements); the first block visited has index input.len() - 1; the last
\* block visited is the root, with index skip - 1, offset INITIAL_OFFSET,
\* bits 0 and a null next_index.
C15_ChainStructure ==
    (pc = "compress" /\ ~InvalidCall) =>
        /\ chain /= <<>>
        /\ Len(chain) < Len(allocator.blocks)
        /\ Len(chain) = Cardinality(ReachableFrom(allocator, {terminal}))
        /\ \A i \in 1..(Len(chain) - 1) : chain[i].index > chain[i + 1].index
        /\ \A h \in ReachableFrom(allocator, {terminal}) :
               LET next == get(allocator, h).next_index
               IN  IF next = 0
                   THEN /\ get(allocator, h).index = skip - 1
                        /\ get(allocator, h).offset = INITIAL_OFFSET
                        /\ get(allocator, h).bits = 0
                   ELSE get(allocator, next).index < get(allocator, h).index
        /\ chain[1].index = Len(input) - 1
        /\ chain[Len(chain)] = [bits |-> 0, index |-> skip - 1, offset |-> INITIAL_OFFSET]

\* C15 witness: behind a prefix, optimize has returned a chain of the
\* terminal, two more blocks and the root.
C15_Witness ==
    /\ pc = "compress"
    /\ skip > 0
    /\ Len(chain) >= 4

\* The window the emitter writes next is a copy from a new offset.
NextIsNewOffset ==
    /\ pc = "emit"
    /\ pos < Len(chain)
    /\ chain[pos + 1].offset /= 0
    /\ chain[pos + 1].offset /= context.last_offset

\* C16. Backtrack safety.  backtrack is set in two places only.  At the
\* start of compress, with output_index 0: the first window written is then
\* a literal run, so the first write_bit has value 0.  And after the low
\* byte of a new offset: output_index is then at least 1, the byte before it
\* is that low byte and its low bit is 0, and the Elias-Gamma code of
\* length - 1 that follows (length >= 2) takes the backtrack with its first
\* bit.  Between windows, and at the end marker, backtrack is clear.
C16_BacktrackSafety ==
    pc = "emit" =>
        /\ pos = 1 =>
              /\ context.backtrack
              /\ context.output_index = 0
              /\ Len(chain) >= 2
              /\ chain[2].offset = 0
        /\ pos > 1 => ~context.backtrack
        /\ NextIsNewOffset =>
              LET off == chain[pos + 1].offset
                  c2 == WriteOffset(context, off, backwards_mode,
                                    InvertMode(classic_mode, backwards_mode))
                  byte == At(c2.output, c2.output_index - 1)
              IN  /\ ~c2.backtrack
                  /\ c2.output_index >= 1
                  /\ c2.output_index = context.output_index + 1
                     \/ c2.output_index = context.output_index + 2
                  /\ byte = OffsetByte(off, backwards_mode)
                  /\ byte % 2 = 0
                  /\ chain[pos + 1].index - chain[pos].index >= 2

\* C16 witness: in forward mode the emitter is about to write a copy of
\* length 2 from a new offset: the code of length - 1 is the terminator bit
\* 1 alone, which write_bit puts in the low bit of the offset's low byte.
C16_Witness ==
    /\ NextIsNewOffset
    /\ ~backwards_mode
    /\ chain[pos + 1].index - chain[pos].index = 2

\* C17. The grammar of the chain the emitter writes, window by window
\* (chain[pos] the block before, chain[pos + 1] the block written, chain[1]
\* the root).  Every block has length >= 1.  A literal block follows a match
\* block or the root.  A block whose offset is the emitter's running
\* last_offset, written as a copy from the last offset, follows a literal
\* block.  A block written as a copy from a new offset has length >= 2.  A
\* match block that follows a match block has another offset.
C17_TokenGrammar ==
    (pc = "emit" /\ pos < Len(chain)) =>
        LET previous_block == chain[pos]
            current_block == chain[pos + 1]
            length == current_block.index - previous_block.index
        IN  /\ length >= 1
            /\ current_block.offset = 0 => previous_block.offset /= 0
            /\ (current_block.offset /= 0 /\ current_block.offset = context.last_offset) =>
                  /\ pos > 1
                  /\ previous_block.offset = 0
            /\ NextIsNewOffset =>
                  /\ length >= 2
                  /\ (current_block.offset - 1) \div 128 + 1 >= 1
            /\ (pos > 1 /\ previous_block.offset /= 0 /\ current_block.offset /= 0) =>
                  /\ current_block.offset /= previous_block.offset
                  /\ previous_block.offset = context.last_offset

\* C17 witness: the chain holds a copy from a new offset right after a copy
\* from the last offset, then a literal run, and the emitter is about to
\* write a copy from the last offset, which is not INITIAL_OFFSET.
C17_Witness ==
    /\ pc = "emit"
    /\ pos > 3
    /\ pos < Len(chain)
    /\ chain[pos + 1].offset = context.last_offset
    /\ context.last_offset /= INITIAL_OFFSET
    /\ chain[pos].offset = 0
    /\ chain[pos - 1].offset = context.last_offset
    /\ chain[pos - 2].offset = INITIAL_OFFSET

\* floor(log2(v)) for v >= 1.
FloorLog2(v) == BitWidth(v) - 1

RECURSIVE Pow2(_)
Pow2(k) == IF k = 0 THEN 1 ELSE 2 * Pow2(k - 1)

\* The bits the format asks for: for each bit of v below its top bit, most
\* significant first, a continuation bit (1 if backwards, else 0) and the
\* bit itself, flipped iff invert; then a terminator bit (0 if backwards,
\* else 1).
ExpectedGamma(v, backwards, invert) ==
    LET n == FloorLog2(v)
    IN  [j \in 1..(2 * n + 1) |->
            IF j = 2 * n + 1 THEN (IF backwards THEN 0 ELSE 1)
            ELSE IF j % 2 = 1 THEN (IF backwards THEN 1 ELSE 0)
            ELSE LET bit == (v \div Pow2(n - (j \div 2))) % 2
                 IN  IF invert THEN 1 - bit ELSE bit]

\* The bits a context holds in its carrier bytes, in the order written,
\* when every byte written is a carrier byte.
CarrierBits(c, count) ==
    [j \in 1..count |->
        IF HasBit(At(c.output, (j - 1) \div 8), Pow2(7 - ((j - 1) % 8))) THEN 1 ELSE 0]

\* C18. A call write_interlaced_elias_gamma(v), v >= 1, in any mode makes
\* exactly elias_gamma_bits(v) = 2 * floor(log2 v) + 1 calls of write_bit,
\* and their values are the bits the format asks for: the pairs of a
\* continuation bit and a data bit, then the terminator bit.  The buffer
\* holds those bits in that order, as the one-step writer of the emitter
\* leaves them.
C18_GammaCost ==
    gamma.stage = "done" =>
        /\ Len(gamma.written) = elias_gamma_bits(gamma.value)
        /\ Len(gamma.written) = 2 * FloorLog2(gamma.value) + 1
        /\ Pow2(FloorLog2(gamma.value)) <= gamma.value
        /\ gamma.value < 2 * Pow2(FloorLog2(gamma.value))
        /\ gamma.written = ExpectedGamma(gamma.value, gamma.backwards_mode, gamma.invert_mode)
        /\ ~gamma.context.fault
        /\ CarrierBits(gamma.context, Len(gamma.written)) = gamma.written
        /\ gamma.context = write_interlaced_elias_gamma(GammaContext, gamma.value,
                               gamma.backwards_mode, gamma.invert_mode)

\* C18 witness: the call for 256, the value of the end marker, has written
\* its 17 bits with the data bits flipped.
C18_Witness ==
    /\ gamma.stage = "done"
    /\ gamma.value = 256
    /\ gamma.invert_mode
    /\ ~gamma.backwards_mode
    /\ Len(gamma.written) = 17

\* The free list as assign_new finds it once the slot's prior value (slot)
\* has been released, the new block's next_index (next) having been
\* retained before: the handles in the order they were freed.
FreeAfterRelease(slot, next) ==
    IF slot /= 0 /\ get(allocator, slot).refcount + (IF next = slot THEN 1 ELSE 0) = 1
    THEN Append(allocator.free_list, slot)
    ELSE allocator.free_list

\* C19. Every assign_new call of the loop of optimize (the steps that end
\* before the test of optimal[index]) appends an element to the block array
\* only when the free list is empty after the release of the slot's prior
\* value, and the slot then holds the new last handle; otherwise the array
\* keeps its length, the slot holds the handle that was freed first among
\* those on the free list, and that handle leaves the list.
C19_ReusePolicy ==
    [][(InOptimize /\ pc' \in {"optimal_last_offset", "optimal_new_offset", "optimal_literals"}) =>
          LET slot == IF pc = "literals" THEN At(last_literal, offset)
                      ELSE At(last_match, offset)
              ptr == IF pc = "literals" THEN At(last_literal', offset)
                     ELSE At(last_match', offset)
              free == FreeAfterRelease(slot, get(allocator', ptr).next_index)
          IN  /\ get(allocator', ptr).refcount = 1
              /\ get(allocator', ptr).index = index
              /\ IF free = <<>>
                 THEN /\ Len(allocator'.blocks) = Len(allocator.blocks) + 1
                      /\ ptr = Len(allocator.blocks)
                      /\ allocator'.free_list = <<>>
                 ELSE /\ Len(allocator'.blocks) = Len(allocator.blocks)
                      /\ ptr = Head(free)
                      /\ allocator'.free_list = Tail(free)]_vars

\* C19 witness: an assign_new call has just stored its block at a handle
\* that was free while another handle stays on the free list: the call
\* chose between two free handles.
C19_Witness ==
    /\ pc \in {"optimal_last_offset", "optimal_new_offset", "optimal_literals"}
    /\ allocator.free_list /= <<>>
    /\ \E h \in Handles :
           /\ get(allocator, h).index = index
           /\ get(allocator, h).refcount = 1
           /\ h < Len(allocator.blocks) - 1
           /\ h \in {At(last_literal, offset), At(last_match, offset)}

====
